---- MODULE Spec2Model ----
(***************************************************************************)
(* Finance analysis pipeline: main.py drives three agents in sequence.     *)
(*   Agent 1  agents/data_loader.py          load_and_prepare_data         *)
(*   Agent 2  agents/indicator_calculator.py calculate_technical_indicators*)
(*   Agent 3  agents/pattern_identifier.py   analyze_patterns_and_report   *)
(*                                                                         *)
(* A DataFrame is a record [cols, n, val]: the ordered column names, the   *)
(* number of rows and, per column, the sequence of its n cells.            *)
(* A cell is <<>> (NaN, the missing marker), a rational <<num, den>>, or   *)
(* <<"mid">> for an RSI strictly between 0 and 100 (the weights of the     *)
(* exponential average do not fit machine integers; only its sign is kept).*)
(* Python strings that the program inspects are sequences of characters.   *)
(* The pandas / pandas_ta calls are modelled by what the library does on   *)
(* the pure-pandas path (no TA-Lib build).                                 *)
(*                                                                         *)
(* Modelled: main.py (its imports and its __main__ block) and the three     *)
(* agent functions.  The imports compile each agent module whole, so the   *)
(* test block of indicator_calculator.py (62-135), which does not parse as *)
(* shipped, decides whether main.py gets past them; the runs of the test   *)
(* blocks themselves are not modelled, nor is the DatetimeIndex branch of  *)
(* the reporter (pattern_identifier.py:61): the loader leaves Date a       *)
(* column, so the frames carry a RangeIndex and the row-count branch       *)
(* (line 65) selects.                                                      *)
(***************************************************************************)
EXTENDS Integers, Sequences, FiniteSets, TLC

\* ------------------------------------------------------------------ bounds
MaxRows == 23
MaxPeriod == 3
BadRowA == 3
BadRowB == 10

\* ------------------------------------------------------- program constants
SmaShort == 5
SmaLong == 20
RsiLength == 14
DefaultPeriod == 30

\* ------------------------------------------------------------------ values
NaN == <<>>
Num(c) == <<c, 1>>
Mid == <<"mid">>
IsNaN(x) == Len(x) = 0
IsNum(x) == Len(x) = 2

Min(a, b) == IF a < b THEN a ELSE b
Max(a, b) == IF a < b THEN b ELSE a

\* floor division for a possibly negative numerator (den > 0)
FloorDiv(a, b) == IF a >= 0 THEN a \div b ELSE -((-a + b - 1) \div b)

\* DataFrame.round(2) on one cell: the value in hundredths, ties to even
\* (numpy.round); NaN stays NaN.
Scale == 100
RoundHalfEven(num, den) ==
    LET q == FloorDiv(num, den)
        r == num - q * den
    IN  IF 2 * r < den THEN q
        ELSE IF 2 * r > den THEN q + 1
        ELSE IF q % 2 = 0 THEN q ELSE q + 1
Round2(x) == IF IsNum(x) THEN <<RoundHalfEven(x[1] * Scale, x[2]), Scale>> ELSE x

\* -------------------------------------------------------------- DataFrames
None == [none |-> TRUE]
IsNone(df) == df = None

HasCol(df, c) == \E i \in 1..Len(df.cols) : df.cols[i] = c
\* DataFrame.empty: some axis has length 0
Empty(df) == df.n = 0 \/ Len(df.cols) = 0

\* df[name] = values: overwrites an existing column in place, else appends
SetColumn(df, name, values) ==
    [cols |-> IF HasCol(df, name) THEN df.cols ELSE Append(df.cols, name),
     n    |-> df.n,
     val  |-> [c \in (DOMAIN df.val) \cup {name} |->
                 IF c = name THEN values ELSE df.val[c]]]

\* head(k) in place of tail(k): the first rows
head(df, k) ==
    LET m == IF k >= 0 THEN (IF k < df.n THEN k ELSE df.n) ELSE 0
    IN  [cols |-> df.cols,
         n    |-> m,
         val  |-> [c \in DOMAIN df.val |-> SubSeq(df.val[c], 1, m)]]
\* DataFrame.tail(k): last k rows for k >= 0, all but the first -k for k < 0
TailStart(n, k) == IF k >= 0 THEN Max(n - k, 0) ELSE Min(-k, n)
tail(df, k) ==
    LET s == TailStart(df.n, k)
    IN  [cols |-> df.cols,
         n    |-> df.n - s,
         val  |-> [c \in DOMAIN df.val |-> SubSeq(df.val[c], s + 1, df.n)]]

\* df[cols]: column selection, in the order asked
Project(df, cs) ==
    [cols |-> cs, n |-> df.n, val |-> [c \in {cs[i] : i \in 1..Len(cs)} |-> df.val[c]]]

\* DataFrame.round(2)
RoundFrame(df) ==
    [cols |-> df.cols, n |-> df.n,
     val |-> [c \in DOMAIN df.val |-> [i \in 1..df.n |-> Round2(df.val[c][i])]]]

\* ------------------------------------------- Agent 2: indicator calculator
\* pandas_ta verify_series(series, min_length): None when the series is
\* shorter than min_length, so the indicator function returns None and the
\* accessor's _post_process appends nothing.
LongEnough(close, length) == Len(close) >= length

\* close.rolling(length, min_periods=length).mean(): pandas' sliding sum.
\* State after row i: the sum and the count of the non-NaN cells in the window.
\* one row enters the window, the row `length` before it leaves
RollStep(prev, close, length, i) ==
    LET added == IF IsNaN(close[i]) THEN prev
                 ELSE [sum |-> prev.sum + close[i][1], nobs |-> prev.nobs + 1]
    IN  IF i > length /\ ~IsNaN(close[i - length])
        THEN [sum |-> added.sum - close[i - length][1], nobs |-> added.nobs - 1]
        ELSE added
RECURSIVE RollState(_, _, _)
RollState(close, length, i) ==
    IF i = 0 THEN [sum |-> 0, nobs |-> 0]
    ELSE CHOOSE st \in {RollStep(prev, close, length, i) :
                            prev \in {RollState(close, length, i - 1)}} : TRUE
\* the rolling mean with min_periods left at 1
RollMeanMinOne(close, length, i) ==
    LET st == RollState(close, length, i)
    IN  IF st.nobs >= 1 THEN <<st.sum, st.nobs>> ELSE NaN
RollMean(close, length, i) ==
    LET st == RollState(close, length, i)
    IN  IF st.nobs >= length THEN <<st.sum, st.nobs>> ELSE NaN
sma(close, length) == [i \in 1..Len(close) |-> RollMean(close, length, i)]

\* close.diff(1)
Diff(close, i) ==
    IF i = 1 \/ IsNaN(close[i]) \/ IsNaN(close[i - 1]) THEN NaN
    ELSE Num(close[i][1] - close[i - 1][1])
\* rma = ewm(alpha=1/length, min_periods=length).mean() of the gains and of
\* the losses: NaN until `length` changes have been observed; afterwards a
\* positively weighted mean of every change seen so far, so it is zero
\* exactly when each of them is zero.
NObs(close, i) == Cardinality({q \in 1..i : ~IsNaN(Diff(close, q))})
AnyGain(close, i) == \E q \in 1..i : ~IsNaN(Diff(close, q)) /\ Diff(close, q)[1] > 0
AnyLoss(close, i) == \E q \in 1..i : ~IsNaN(Diff(close, q)) /\ Diff(close, q)[1] < 0
\* rsi = 100 * positive_avg / (positive_avg + negative_avg.abs())
RsiAt(close, length, i) ==
    IF NObs(close, i) < length THEN NaN
    ELSE IF ~AnyGain(close, i) /\ ~AnyLoss(close, i) THEN NaN    \* 0.0 / 0.0
    ELSE IF ~AnyLoss(close, i) THEN Num(100)
    ELSE IF ~AnyGain(close, i) THEN Num(0)
    ELSE Mid
rsi(close, length) == [i \in 1..Len(close) |-> RsiAt(close, length, i)]

\* One df.ta.<indicator>(length=..., append=True) call.  fault names the
\* library call that raises, "none" when none does.
Indicators == <<"SMA_5", "SMA_20", "RSI_14">>
Faults == {"none", "SMA_5", "SMA_20", "RSI_14"}
IndicatorLength(name) ==
    IF name = "SMA_5" THEN SmaShort ELSE IF name = "SMA_20" THEN SmaLong ELSE RsiLength
IndicatorValues(name, close) ==
    IF name = "RSI_14" THEN rsi(close, RsiLength) ELSE sma(close, IndicatorLength(name))
AppendIndicator(df, name) ==
    IF LongEnough(df.val["Close"], IndicatorLength(name))
    THEN SetColumn(df, name, IndicatorValues(name, df.val["Close"]))
    ELSE df

\* The try block from its k-th indicator call on; r is the result so far:
\* the frame, the calls started, whether the except clause ran.
RECURSIVE RunIndicators(_, _, _)
RunIndicators(r, k, fault) ==
    IF k > Len(Indicators) THEN r
    ELSE LET name == Indicators[k]
         IN  IF fault = name
             THEN [r EXCEPT !.attempted = Append(@, name), !.raised = TRUE]
             ELSE CHOOSE res \in
                    {RunIndicators(next, k + 1, fault) :
                       next \in {[r EXCEPT !.attempted = Append(@, name),
                                           !.df = AppendIndicator(r.df, name)]}} : TRUE

\* the function returning None, not the frame, when it fails
calculate_or_none(df, fault) ==
    LET r0 == [df |-> df, attempted |-> <<>>, raised |-> FALSE, msg |-> "ok"]
    IN  IF ~HasCol(df, "Close")
        THEN [r0 EXCEPT !.df = None,
                        !.msg = "Error: DataFrame must contain a 'Close' column for SMA/RSI."]
        ELSE LET r == RunIndicators(r0, 1, fault)
             IN  IF r.raised
                 THEN [r EXCEPT !.df = None, !.msg = "Agent 2: Error calculating indicators"]
                 ELSE [r EXCEPT !.msg = "Agent 2: Indicators calculated successfully."]
calculate_technical_indicators(df, fault) ==
    LET r0 == [df |-> df, attempted |-> <<>>, raised |-> FALSE, msg |-> "ok"]
    IN  IF ~HasCol(df, "Close")
        THEN [r0 EXCEPT !.msg = "Error: DataFrame must contain a 'Close' column for SMA/RSI."]
        ELSE LET r == RunIndicators(r0, 1, fault)
             IN  IF r.raised
                 THEN [r EXCEPT !.msg = "Agent 2: Error calculating indicators"]
                 ELSE [r EXCEPT !.msg = "Agent 2: Indicators calculated successfully."]

\* ------------------------------------------------------------ Python strings
ErrorPrefix == <<"E", "R", "R", "O", "R", ":">>
startswith(s, p) == Len(s) >= Len(p) /\ SubSeq(s, 1, Len(p)) = p
\* A character is a one-character string; a character that has no TLA+
\* escape is written by the name of its code point ("U+000B").
\* The characters str.strip() removes when called without an argument: those
\* for which str.isspace() holds.
Whitespace ==
    {"\t", "\n", "U+000B", "\f", "\r", "U+001C", "U+001D", "U+001E", "U+001F", " ",
     "U+0085", "U+00A0", "U+1680", "U+2000", "U+2001", "U+2002", "U+2003", "U+2004",
     "U+2005", "U+2006", "U+2007", "U+2008", "U+2009", "U+200A", "U+2028", "U+2029",
     "U+202F", "U+205F", "U+3000"}
RECURSIVE lstrip(_)
lstrip(s) == IF s # <<>> /\ s[1] \in Whitespace THEN lstrip(SubSeq(s, 2, Len(s))) ELSE s
RECURSIVE rstrip(_)
rstrip(s) ==
    IF s # <<>> /\ s[Len(s)] \in Whitespace THEN rstrip(SubSeq(s, 1, Len(s) - 1)) ELSE s
strip(s) == rstrip(lstrip(s))
\* str(k) of an integer, as the f-strings format it
DigitChars == <<"0", "1", "2", "3", "4", "5", "6", "7", "8", "9">>
RECURSIVE NatToStr(_)
NatToStr(k) ==
    IF k < 10 THEN <<DigitChars[k + 1]>>
    ELSE NatToStr(k \div 10) \o <<DigitChars[(k % 10) + 1]>>
IntToStr(k) == IF k < 0 THEN <<"-">> \o NatToStr(-k) ELSE NatToStr(k)

\* --------------------------------------------------- Agent 1: data loader
RequiredColumns == <<"Date", "Open", "High", "Low", "Close", "Adj Close", "Volume">>
NumericCols == <<"Open", "High", "Low", "Close", "Adj Close", "Volume">>
SeqRange(q) == {q[i] : i \in 1..Len(q)}
BadCell == <<"x">>

\* pd.to_numeric(errors='coerce') on one cell of the file
to_numeric(cell) == IF IsNum(cell) THEN cell ELSE NaN
\* pd.to_datetime on the Date column: raises when a cell does not parse; a
\* missing cell does not raise and becomes NaT, the missing marker of dates
DatesParse(dates) == \A i \in 1..Len(dates) : IsNum(dates[i]) \/ IsNaN(dates[i])
to_datetime(cell) == IF IsNum(cell) THEN cell ELSE NaN

\* data_loader.py:46-69: the dates converted, the numeric columns coerced,
\* the frame returned
Prepare(file) ==
    [cols |-> file.cols, n |-> file.n,
     val |-> [c \in DOMAIN file.val |->
                IF c \in SeqRange(NumericCols)
                THEN [i \in 1..file.n |-> to_numeric(file.val[c][i])]
                ELSE IF c = "Date"
                THEN [i \in 1..file.n |-> to_datetime(file.val[c][i])]
                ELSE file.val[c]]]

\* config: [state, hasPeriod, period]; file: None (no file at raw_data_path)
\* or the frame pd.read_csv yields, cells still as read.
load_and_prepare_data(config, file) ==
    IF config.state = "missing" THEN None               \* os.path.exists fails
    ELSE IF config.state = "badyaml" THEN None          \* yaml.YAMLError
    ELSE IF IsNone(file) THEN None                      \* data file not found
    ELSE IF \E i \in 1..Len(RequiredColumns) : ~HasCol(file, RequiredColumns[i])
         THEN None
    ELSE IF ~DatesParse(file.val["Date"]) THEN None
    ELSE Prepare(file)

\* -------------------------------- Agent 3: pattern identifier & reporter
RelevantColumns == <<"Close", "SMA_5", "SMA_20", "RSI_14">>
MsgNoConfig == 
    <<"E", "R", "R", "O", "R", ":", " ", "C", "o", "n", "f", "i", "g", " ", "f", "i",
      "l", "e", " ", "n", "o", "t", " ", "f", "o", "u", "n", "d", " ", "a", "t", " ",
      "c", "o", "n", "f", "i", "g", ".", "y", "a", "m", "l">>
MsgEmptyFrame == 
    <<"E", "R", "R", "O", "R", ":", " ", "R", "e", "c", "e", "i", "v", "e", "d", " ",
      "e", "m", "p", "t", "y", " ", "o", "r", " ", "i", "n", "v", "a", "l", "i", "d",
      " ", "D", "a", "t", "a", "F", "r", "a", "m", "e", " ", "f", "o", "r", " ", "a",
      "n", "a", "l", "y", "s", "i", "s", ".">>
MsgNoData(period) ==
    
    <<"E", "R", "R", "O", "R", ":", " ", "N", "o", " ", "d", "a", "t", "a", " ", "f",
      "o", "u", "n", "d", " ", "w", "i", "t", "h", "i", "n", " ", "t", "h", "e", " ",
      "l", "a", "s", "t", " ">>
    \o IntToStr(period) \o <<" ", "d", "a", "y", "s", "/", "r", "o", "w", "s", ".">>
MsgNoColumns == 
    <<"E", "R", "R", "O", "R", ":", " ", "N", "o", "n", "e", " ", "o", "f", " ", "t",
      "h", "e", " ", "r", "e", "l", "e", "v", "a", "n", "t", " ", "c", "o", "l", "u",
      "m", "n", "s", " ", "(", "C", "l", "o", "s", "e", ",", " ", "S", "M", "A", "_",
      "5", ",", " ", "S", "M", "A", "_", "2", "0", ",", " ", "R", "S", "I", "_", "1",
      "4", ")", " ", "f", "o", "u", "n", "d", " ", "i", "n", " ", "D", "a", "t", "a",
      "F", "r", "a", "m", "e", ".">>
MsgUnexpected == 
    <<"E", "R", "R", "O", "R", ":", " ", "F", "a", "i", "l", "e", "d", " ", "t", "o",
      " ", "g", "e", "n", "e", "r", "a", "t", "e", " ", "r", "e", "p", "o", "r", "t",
      " ", "d", "u", "e", " ", "t", "o", " ", "a", "n", " ", "u", "n", "e", "x", "p",
      "e", "c", "t", "e", "d", " ", "e", "r", "r", "o", "r", ":", " ", "e">>

\* a strict selection: every relevant column or none
ColsToFormatStrict(df) ==
    IF \A i \in 1..Len(RelevantColumns) : HasCol(df, RelevantColumns[i])
    THEN RelevantColumns ELSE <<>>
\* cols_to_format = [col for col in relevant_columns if col in recent_data.columns]
ColsToFormat(df) == SelectSeq(RelevantColumns, LAMBDA c : HasCol(df, c))

\* llm: [raises, text]: whether the chain raises (formatting, model service)
\* and otherwise the text the model answers.
analyze_patterns_and_report(df, config, llm) ==
    LET period == IF config.hasPeriod THEN config.period ELSE DefaultPeriod
        r0 == [report |-> <<>>, recent |-> None, cols |-> <<>>, excerpt |-> None]
    IN  IF config.state = "missing" THEN [r0 EXCEPT !.report = MsgNoConfig]
        ELSE IF config.state = "badyaml" THEN [r0 EXCEPT !.report = MsgUnexpected]
        ELSE IF IsNone(df) \/ Empty(df) THEN [r0 EXCEPT !.report = MsgEmptyFrame]
        ELSE LET recent == tail(df, period)
                 r1 == [r0 EXCEPT !.recent = recent]
             IN  IF Empty(recent) THEN [r1 EXCEPT !.report = MsgNoData(period)]
                 ELSE LET cols == ColsToFormat(recent)
                          r2 == [r1 EXCEPT !.cols = cols]
                      IN  IF cols = <<>> THEN [r2 EXCEPT !.report = MsgNoColumns]
                          ELSE LET r3 == [r2 EXCEPT !.excerpt =
                                               RoundFrame(Project(recent, cols))]
                               IN  IF llm.raises
                                   THEN [r3 EXCEPT !.report = MsgUnexpected]
                                   ELSE [r3 EXCEPT !.report = strip(llm.text)]

\* ------------------------------------------------------------ environment
\* Close prices of the files: the series of the calculator's own test block
\* (repeated when more rows are asked for), and flat, rising, falling ones.
TestClose == <<100, 101, 102, 101, 103, 105, 106, 104, 105, 107,
               108, 109, 110, 108, 107, 109, 111, 110, 112, 113,
               115, 114, 116>>
Kinds == {"test", "flat", "up", "down"}
Price(kind, i) ==
    IF kind = "test" THEN TestClose[((i - 1) % Len(TestClose)) + 1]
    ELSE IF kind = "flat" THEN 100
    ELSE IF kind = "up" THEN 100 + i
    ELSE 200 - i
\* bad > 0: the price cell of that row is not a number; date: the last Date
\* cell parses ("ok"), does not parse ("bad") or is an empty field ("missing").
DateKinds == {"ok", "bad", "missing"}
CsvFile(header, n, kind, bad, date) ==
    LET price == [i \in 1..n |-> IF i = bad THEN BadCell ELSE Num(Price(kind, i))]
        last  == IF date = "bad" THEN BadCell ELSE IF date = "missing" THEN NaN ELSE Num(n)
    IN  [cols |-> header, n |-> n,
         val |-> [c \in SeqRange(header) |->
                    IF c = "Date"
                    THEN [i \in 1..n |-> IF i = n THEN last ELSE Num(i)]
                    ELSE IF c = "Volume" THEN [i \in 1..n |-> Num(1000)]
                    ELSE price]]
NoCloseHeader == SelectSeq(RequiredColumns, LAMBDA c : c # "Close")
Headers == {RequiredColumns, NoCloseHeader}
CsvFiles ==
    {CsvFile(h, n, kind, bad, d) :
        h \in Headers, n \in 0..MaxRows, kind \in Kinds, bad \in {0, BadRowA, BadRowB},
        d \in DateKinds}
Files == {None} \cup CsvFiles

\* config.yaml: absent, unparsable, or parsed with or without
\* agents.pattern_reporting_agent.analysis_period_days
Configs ==
    {[state |-> st, hasPeriod |-> FALSE, period |-> 0] : st \in {"missing", "badyaml", "ok"}}
    \cup {[state |-> "ok", hasPeriod |-> TRUE, period |-> k] : k \in 0..MaxPeriod}

\* what the model service answers
LlmTexts ==
    {<<"B", "u", "l", "l", "i", "s", "h", " ", "c", "r", "o", "s", "s", "o", "v", "e", "r", ".">>,
     <<" ", "E", "R", "R", "O", "R", ":", " ", "n", "o", " ", "d", "a", "t", "a", "\n">>,
     <<"E", "R", "R", "O", "R">>,
     <<"e", "r", "r", "o", "r", ":", " ", "x">>,
     <<"N", "o", "t", "e", " ", "E", "R", "R", "O", "R", ":", " ", "x">>,
     <<>>,
     <<" ", "\n">>,
     <<"\r", "\n", "E", "R", "R", "O", "R", ":", " ", "x", "\r", "\n">>,
     <<"U+00A0", "O", "K", "\r", "\f", "U+000B", "U+2028">>}
LlmOutcomes ==
    {[raises |-> TRUE, text |-> <<>>]} \cup {[raises |-> FALSE, text |-> t] : t \in LlmTexts}

\* ---------------------------------------------------------------- main.py
NoneStr == [none |-> TRUE, text |-> <<>>]
Str(s) == [none |-> FALSE, text |-> s]
MsgNoValidReport == <<"N", "o", " ", "v", "a", "l", "i", "d", " ", "r", "e", "p", "o", "r", "t", " ", "g", "e", "n", "e", "r", "a", "t", "e", "d", ".">>

\* agents/indicator_calculator.py as Python finds it when main.py imports it:
\* the file as shipped, or the file cut before its test block (lines 1-61).
\* Python compiles the whole file on import, and line 118 of the shipped file
\* is an unexpected indent.
CalculatorSources == {"shipped", "cut"}
Compiles(source) == source # "shipped"
MsgImported == "Successfully imported agent functions."
MsgImportError ==
    "An unexpected error occurred during import: unexpected indent (indicator_calculator.py, line 118)"

VARIABLES
    pc,                  \* position in main.py; "exit" after sys.exit(1)
    calculator_py,       \* agents/indicator_calculator.py as it is on disk
    config,              \* config.yaml as it is on disk during the run
    data_df,             \* main.py:39
    df_with_indicators,  \* main.py:42,45
    final_report,        \* main.py:64,68
    calls,               \* the agent functions invoked so far, in order
    agent2,              \* what the last Agent 2 call did
    agent3,              \* what the last Agent 3 call was given and built
    out,                 \* the orchestrator's status lines printed so far
    shown,               \* what line 75 printed as the final report
    summary              \* what line 85 printed

vars == <<pc, calculator_py, config, data_df, df_with_indicators, final_report, calls,
          agent2, agent3, out, shown, summary>>

NoAgent2 == [called |-> FALSE, attempted |-> <<>>, raised |-> FALSE, msg |-> "",
             input |-> None, fault |-> "none"]
NoAgent3 == [called |-> FALSE, input |-> None, recent |-> None, cols |-> <<>>,
             excerpt |-> None, period |-> 0]

Init ==
    /\ pc = "import"
    /\ calculator_py \in CalculatorSources
    /\ config \in Configs
    /\ data_df = None
    /\ df_with_indicators = None
    /\ final_report = NoneStr
    /\ calls = <<>>
    /\ agent2 = NoAgent2
    /\ agent3 = NoAgent3
    /\ out = <<>>
    /\ shown = <<>>
    /\ summary = NoneStr

\* main.py:17-28: the three imports; an exception of any of them ends the
\* program with sys.exit(1) before the __main__ block
Import ==
    /\ pc = "import"
    /\ IF Compiles(calculator_py)
       THEN /\ out' = Append(out, MsgImported)
            /\ pc' = "load"
       ELSE /\ out' = Append(out, MsgImportError)
            /\ pc' = "exit"
    /\ UNCHANGED <<calculator_py, config, data_df, df_with_indicators, final_report,
                   calls, agent2, agent3, shown, summary>>

\* main.py:37-39
Load ==
    /\ pc = "load"
    /\ \E file \in Files : data_df' = load_and_prepare_data(config, file)
    /\ calls' = Append(calls, "load_and_prepare_data")
    /\ pc' = "step2"
    /\ UNCHANGED <<calculator_py, config, df_with_indicators, final_report, agent2, agent3, out,
                   shown, summary>>

\* the guard with the emptiness test left out
UsableNotNone(df) == ~IsNone(df)
\* main.py:43
Usable(df) == ~IsNone(df) /\ ~Empty(df)

\* main.py:47-58, the checks on what Agent 2 returned
Agent2Check(df) ==
    IF Usable(df)
    THEN IF ~HasCol(df, "SMA_5") \/ ~HasCol(df, "RSI_14")
         THEN "Pipeline Warning: Agent 2 might not have added expected indicator columns (SMA_5, RSI_14)."
         ELSE "Successfully ran Agent 1 -> Agent 2 flow."
    ELSE "Agent 2: Indicator calculation failed or returned empty DataFrame."

\* the call made on data_df itself, without .copy()
ShareWithAgent2(df) == [frame |-> df, shared |-> TRUE]
\* main.py:45, the argument data_df.copy(): a frame of its own, not shared
\* with the caller
CopyForAgent2(df) == [frame |-> df, shared |-> FALSE]

\* main.py:43-58.  Agent 2 appends to its argument in place and returns that
\* same object, so a caller that shares the object sees the appended columns.
InvokeAgent2 ==
    /\ pc = "step2"
    /\ Usable(data_df)
    /\ \E fault \in Faults :
         \E arg \in {CopyForAgent2(data_df)} :
         \E r \in {calculate_technical_indicators(arg.frame, fault)} :
             /\ df_with_indicators' = r.df
             /\ data_df' = IF arg.shared THEN r.df ELSE data_df
             /\ agent2' = [called |-> TRUE, attempted |-> r.attempted,
                           raised |-> r.raised, msg |-> r.msg, input |-> data_df,
                           fault |-> fault]
             /\ out' = Append(out, Agent2Check(r.df))
    /\ calls' = Append(calls, "calculate_technical_indicators")
    /\ pc' = "step3"
    /\ UNCHANGED <<calculator_py, config, final_report, agent3, shown, summary>>

\* main.py:59-61
SkipAgent2 ==
    /\ pc = "step2"
    /\ ~Usable(data_df)
    /\ out' = Append(out, "Agent 1: Data loading failed. Workflow stopped before Agent 2.")
    /\ pc' = "step3"
    /\ UNCHANGED <<calculator_py, config, data_df, df_with_indicators, final_report, calls, agent2,
                   agent3, shown, summary>>

\* the failure test with the prefix check left out
ReportFailedNoneOnly(rep) == rep.none
\* main.py:70
ReportFailed(rep) == rep.none \/ startswith(rep.text, ErrorPrefix)

\* main.py:65-77
InvokeAgent3 ==
    /\ pc = "step3"
    /\ Usable(df_with_indicators)
    /\ \E llm \in LlmOutcomes :
         \E r \in {analyze_patterns_and_report(df_with_indicators, config, llm)} :
         \E rep \in {Str(r.report)} :
             /\ final_report' = rep
             /\ agent3' = [called |-> TRUE, input |-> df_with_indicators,
                           recent |-> r.recent, cols |-> r.cols, excerpt |-> r.excerpt,
                           period |-> IF config.hasPeriod THEN config.period
                                      ELSE DefaultPeriod]
             /\ IF ReportFailed(rep)
                THEN /\ out' = Append(out, "Agent 3 failed or produced an error")
                     /\ shown' = shown
                ELSE /\ out' = out \o <<"--- Agent 3 Final Report: ---",
                                        "Successfully ran Agent 1 -> Agent 2 -> Agent 3 flow.">>
                     /\ shown' = Append(shown, rep.text)
    /\ calls' = Append(calls, "analyze_patterns_and_report")
    /\ pc' = "summary"
    /\ UNCHANGED <<calculator_py, config, data_df, df_with_indicators, agent2, summary>>

\* a skip that goes back to ingestion instead of on to the summary
SkipAgent3Retry ==
    /\ pc = "step3"
    /\ ~Usable(df_with_indicators)
    /\ Len(calls) < 3
    /\ out' = Append(out, "Skipping Agent 3 because previous steps failed or produced no data.")
    /\ pc' = "load"
    /\ UNCHANGED <<calculator_py, config, data_df, df_with_indicators, final_report, calls, agent2,
                   agent3, shown, summary>>
\* main.py:79-80
SkipAgent3 ==
    /\ pc = "step3"
    /\ ~Usable(df_with_indicators)
    /\ out' = Append(out, "Skipping Agent 3 because previous steps failed or produced no data.")
    /\ pc' = "summary"
    /\ UNCHANGED <<calculator_py, config, data_df, df_with_indicators, final_report, calls, agent2,
                   agent3, shown, summary>>

\* main.py:85, the conditional expression
SummaryText(rep) ==
    IF ~rep.none /\ rep.text # <<>> /\ ~startswith(rep.text, ErrorPrefix)
    THEN rep.text ELSE MsgNoValidReport

\* main.py:82-89
Summary ==
    /\ pc = "summary"
    /\ summary' = Str(SummaryText(final_report))
    /\ pc' = "done"
    /\ UNCHANGED <<calculator_py, config, data_df, df_with_indicators, final_report, calls, agent2,
                   agent3, out, shown>>

Next ==
    Import \/ Load \/ InvokeAgent2 \/ SkipAgent2 \/ InvokeAgent3 \/ SkipAgent3 \/ Summary

Spec == Init /\ [][Next]_vars

\* ================================================================= claims
Invoked(fn) == \E i \in 1..Len(calls) : calls[i] = fn
Printed(line) == \E i \in 1..Len(out) : out[i] = line
PresentIndicators(df) == {c \in SeqRange(Indicators) : HasCol(df, c)}
\* a character string that begins with E R R O R :
IsErrorText(t) ==
    /\ Len(t) >= 6
    /\ t[1] = "E" /\ t[2] = "R" /\ t[3] = "R" /\ t[4] = "O" /\ t[5] = "R" /\ t[6] = ":"

\* The frame the loader returned with its Close column taken out: what a
\* caller other than main.py's loader could hand to the indicator stage (the
\* loader itself refuses a file without Close: data_loader.py:38-43).
WithoutClose(df) == Project(df, SelectSeq(df.cols, LAMBDA c : c # "Close"))
MissingClosePath(df, fault) == calculate_technical_indicators(WithoutClose(df), fault)

\* C1: when the frame handed to the indicator stage has no Close column, the
\* stage starts no indicator computation and signals failure, so that the
\* orchestrator ends the run failed at the indicators stage: what the stage
\* returns prints the failure line of main.py:57 and does not pass the guard
\* of main.py:65, under which analyze_patterns_and_report is invoked.
C1_MissingCloseStopsRun ==
    (pc = "step2" /\ Usable(data_df)) =>
        /\ MissingClosePath(data_df, "none").attempted = <<>>
        /\ ~Usable(MissingClosePath(data_df, "none").df)
        /\ Agent2Check(MissingClosePath(data_df, "none").df)
             = "Agent 2: Indicator calculation failed or returned empty DataFrame."

\* C2: when ingestion returns None or an empty frame, neither the indicator
\* stage nor the report stage is invoked and the run ends with no report.
C2_IngestionFailureStopsPipeline ==
    (Invoked("load_and_prepare_data") /\ pc # "load" /\ (IsNone(data_df) \/ data_df.n = 0))
        => /\ calls = <<"load_and_prepare_data">>
           /\ ~agent2.called /\ ~agent3.called
           /\ IsNone(df_with_indicators)
           /\ final_report.none
           /\ shown = <<>>
           /\ (pc = "done" => summary.text = MsgNoValidReport)
C2_Witness ==
    /\ pc = "done"
    /\ ~IsNone(data_df) /\ data_df.n = 0
    /\ Printed("Agent 1: Data loading failed. Workflow stopped before Agent 2.")

\* C3: a report string that starts with "ERROR:" is a failed run: it is not
\* printed as the final report, the success line of the full flow is not
\* printed, and the final summary does not show it.
C3_ErrorReportIsFailure ==
    (agent3.called /\ IsErrorText(final_report.text))
        => /\ shown = <<>>
           /\ ~Printed("Successfully ran Agent 1 -> Agent 2 -> Agent 3 flow.")
           /\ ~Printed("--- Agent 3 Final Report: ---")
           /\ Printed("Agent 3 failed or produced an error")
           /\ (pc = "done" => summary.text = MsgNoValidReport)
C3_Witness ==
    /\ pc = "done"
    /\ agent3.called
    /\ ~IsNone(agent3.excerpt)
    /\ IsErrorText(final_report.text)
    /\ final_report.text = <<"E", "R", "R", "O", "R", ":", " ", "x">>

\* C4: a frame that carries some but not all of SMA_5, SMA_20, RSI_14 because
\* the indicator stage failed between two indicator computations is never
\* passed to the report stage.
PartialIndicators(df) ==
    PresentIndicators(df) # {} /\ PresentIndicators(df) # SeqRange(Indicators)
C4_PartialNeverReachesReport ==
    agent3.called => ~(agent2.raised /\ PartialIndicators(agent3.input))

\* C5: with a Close column and n rows, n below an indicator's minimum-rows
\* threshold (window for SMA, window + 1 for RSI), the stage still adds that
\* indicator's column, of length n and all missing, does not fail, and goes
\* on to the next indicator.
MinimumRows(name) ==
    IF name = "RSI_14" THEN IndicatorLength(name) + 1 ELSE IndicatorLength(name)
C5_ShortTableGetsMissingColumn ==
    (agent2.called /\ ~agent2.raised /\ HasCol(agent2.input, "Close"))
        => /\ agent2.attempted = Indicators
           /\ \A name \in SeqRange(Indicators) :
                agent2.input.n < MinimumRows(name)
                    => /\ HasCol(df_with_indicators, name)
                       /\ Len(df_with_indicators.val[name]) = agent2.input.n
                       /\ \A i \in 1..agent2.input.n :
                            IsNaN(df_with_indicators.val[name][i])

\* C6: a run is single-pass: each stage is invoked at most once, in the order
\* ingestion, indicators, report, each on the whole value the stage before it
\* returned, and nothing is invoked again after a failure.
Stages == <<"load_and_prepare_data", "calculate_technical_indicators",
            "analyze_patterns_and_report">>
C6_SinglePassInOrder ==
    /\ Len(calls) <= Len(Stages)
    /\ calls = SubSeq(Stages, 1, Len(calls))
    /\ agent2.called <=> Invoked("calculate_technical_indicators")
    /\ agent3.called <=> Invoked("analyze_patterns_and_report")
    /\ agent2.called => (~IsNone(data_df) /\ agent2.input = data_df)
    /\ agent3.called => (agent2.called /\ agent3.input = df_with_indicators)
    /\ (pc \in {"import", "exit", "load"}) <=> (calls = <<>>)
C6_Witness ==
    /\ pc = "done"
    /\ calls = Stages
    /\ IsErrorText(final_report.text)

\* C7: for the SMA windows 5 and 20, the value at row i is missing for
\* i < w-1 and, for i >= w-1 with no missing input, is the arithmetic mean of
\* Close[i-w+1 .. i] (missing when an input of the window is missing); for
\* [100,101,102,101,103] and w = 3 rows 2, 3, 4 are 101.0, 101.33, 102.0.
\* Rows are counted from 0 in the claim and from 1 here.
RECURSIVE SumCells(_, _, _)
SumCells(close, a, b) == IF a > b THEN 0 ELSE close[a][1] + SumCells(close, a + 1, b)
CleanWindow(close, a, b) == \A j \in a..b : IsNum(close[j])
IsMeanOf(v, close, a, b) ==
    IsNum(v) /\ v[1] * (b - a + 1) = v[2] * SumCells(close, a, b)
SmaColumnRight(df, close, name, w) ==
    HasCol(df, name) =>
        /\ Len(df.val[name]) = Len(close)
        /\ \A p \in 1..Len(close) :
             LET v == df.val[name][p]
             IN  IF p < w THEN IsNaN(v)
                 ELSE IF CleanWindow(close, p - w + 1, p)
                      THEN IsMeanOf(v, close, p - w + 1, p)
                      ELSE IsNaN(v)
ExampleClose == <<Num(100), Num(101), Num(102), Num(101), Num(103)>>
C7_SmaIsTrailingMean ==
    /\ (agent2.called /\ HasCol(agent2.input, "Close"))
         => /\ SmaColumnRight(df_with_indicators, agent2.input.val["Close"], "SMA_5", 5)
            /\ SmaColumnRight(df_with_indicators, agent2.input.val["Close"], "SMA_20", 20)
    /\ LET ex == sma(ExampleClose, 3)
       IN  /\ IsNaN(ex[1]) /\ IsNaN(ex[2])
           /\ Round2(ex[3]) = <<10100, 100>>
           /\ Round2(ex[4]) = <<10133, 100>>
           /\ Round2(ex[5]) = <<10200, 100>>
C7_Witness ==
    /\ agent2.called
    /\ HasCol(df_with_indicators, "SMA_5") /\ HasCol(df_with_indicators, "SMA_20")
    /\ \E p \in 1..df_with_indicators.n : IsNum(df_with_indicators.val["SMA_20"][p])
    /\ \E p \in 1..df_with_indicators.n :
         p >= 5 /\ IsNaN(df_with_indicators.val["SMA_5"][p])

\* C8: on a constant Close series of at least 15 rows RSI_14 at the first
\* computable row (row 14, counted from 0) is exactly 50.
Flat(close) == \A i \in 1..Len(close) : IsNum(close[i]) /\ close[i] = close[1]
C8_FlatSeriesRsiIsFifty ==
    (/\ agent2.called /\ ~agent2.raised
     /\ HasCol(agent2.input, "Close")
     /\ agent2.input.n >= 15
     /\ Flat(agent2.input.val["Close"]))
        => /\ HasCol(df_with_indicators, "RSI_14")
           /\ df_with_indicators.val["RSI_14"][15] = Num(50)

\* C9: for a non-empty augmented frame with a Close column, whatever subset
\* of SMA_5, SMA_20, RSI_14 it carries, the excerpt is built and holds Close
\* and exactly the indicator columns present; absent ones are skipped.
C9_ExcerptSkipsAbsentIndicators ==
    (/\ agent3.called
     /\ HasCol(agent3.input, "Close")
     /\ ~IsNone(agent3.recent) /\ agent3.recent.n > 0)
        => /\ ~IsNone(agent3.excerpt)
           /\ SeqRange(agent3.excerpt.cols) = {"Close"} \cup PresentIndicators(agent3.input)
           /\ Len(agent3.excerpt.cols) = Cardinality(SeqRange(agent3.excerpt.cols))
           /\ agent3.excerpt.n = agent3.recent.n
           /\ final_report.text # MsgNoColumns
C9_Witness ==
    /\ agent3.called
    /\ ~IsNone(agent3.excerpt)
    /\ PresentIndicators(agent3.input) = {"SMA_5"}
    /\ ~agent2.raised

\* C10: row-count trailing selection of a window of k >= 0 rows from a frame
\* of L rows yields exactly min(k, L) rows, the last rows of the frame in
\* their order with the same columns; the empty-selection error is returned
\* only when that window has no rows.
C10_TailSelectsLastRows ==
    agent3.called =>
        /\ ~IsNone(agent3.recent) =>
             LET L == agent3.input.n
                 k == agent3.period
                 r == agent3.recent
             IN  /\ r.n = (IF k < L THEN k ELSE L)
                 /\ r.cols = agent3.input.cols
                 /\ \A c \in SeqRange(r.cols) :
                      /\ Len(r.val[c]) = r.n
                      /\ \A j \in 1..r.n : r.val[c][j] = agent3.input.val[c][L - r.n + j]
        /\ final_report.text = MsgNoData(agent3.period)
             => (~IsNone(agent3.recent) /\ agent3.recent.n = 0)
C10_Witness ==
    /\ agent3.called
    /\ ~IsNone(agent3.recent)
    /\ agent3.recent.n > 1
    /\ agent3.recent.n < agent3.input.n
    /\ HasCol(agent3.recent, "SMA_5")

\* C11: the indicator stage only appends indicator columns: when it returns,
\* with success or failure, the row count and every value of every column
\* the frame had before are unchanged, the new columns come after the old
\* ones, and the frame main.py holds from ingestion is unchanged (the stage
\* worked on a copy); a frame without Close comes back as it was handed over.
IsPrefixOf(a, b) == Len(a) <= Len(b) /\ SubSeq(b, 1, Len(a)) = a
OnlyAppended(before, after) ==
    /\ after.n = before.n
    /\ IsPrefixOf(before.cols, after.cols)
    /\ SeqRange(after.cols) \ SeqRange(before.cols) \subseteq {"SMA_5", "SMA_20", "RSI_14"}
    /\ \A c \in SeqRange(before.cols) : after.val[c] = before.val[c]
C11_OnlyAppendsIndicatorColumns ==
    /\ agent2.called =>
            /\ data_df = agent2.input
            /\ OnlyAppended(agent2.input, df_with_indicators)
    /\ agent2.called =>
            \A fault \in Faults :
                MissingClosePath(agent2.input, fault).df = WithoutClose(agent2.input)
C11_Witness ==
    /\ agent2.called
    /\ agent2.raised
    /\ HasCol(df_with_indicators, "SMA_5") /\ ~HasCol(data_df, "SMA_5")
    /\ \E p \in 1..data_df.n : IsNaN(data_df.val["Close"][p])

\* C12: in main.py the report stage is invoked exactly when ingestion
\* returned a non-empty frame: the indicator stage returns the frame it was
\* given, with the same rows, on every path (missing Close, exception,
\* success), so the line "Agent 2: Indicator calculation failed or returned
\* empty DataFrame." is never printed and no outcome of the indicator stage
\* stops the run before the report stage.
C12_ReportIffIngestionNonEmpty ==
    /\ agent2.called =>
         \A fault \in Faults :
            LET back == MissingClosePath(agent2.input, fault).df
            IN  ~IsNone(back) /\ back.n = agent2.input.n /\ Usable(back)
    /\ agent2.called
         => /\ ~IsNone(df_with_indicators)
            /\ df_with_indicators.n = agent2.input.n
            /\ df_with_indicators.n > 0
            /\ IsPrefixOf(agent2.input.cols, df_with_indicators.cols)
    /\ ~Printed("Agent 2: Indicator calculation failed or returned empty DataFrame.")
    /\ pc \in {"summary", "done"}
         => (agent3.called <=> (~IsNone(data_df) /\ data_df.n > 0))
    /\ pc \in {"summary", "done"} => (agent3.called <=> agent2.called)
C12_Witness ==
    /\ pc = "done"
    /\ agent3.called
    /\ agent2.raised
    /\ agent2.attempted = <<"SMA_5">>
    /\ PresentIndicators(agent3.input) = {}
    /\ Printed("Pipeline Warning: Agent 2 might not have added expected indicator columns (SMA_5, RSI_14).")

\* C13: every run of main.py ends at the final summary whatever the stages
\* do: the run stops nowhere before it, no stage lets an error escape
\* (ingestion returns a frame or None, the indicator stage a frame, the report
\* stage a string), and the summary shows the report when the report stage
\* was invoked and returned a non-empty string not starting with "ERROR:",
\* and "No valid report generated." in every other case.
IsFrame(df) == DOMAIN df = {"cols", "n", "val"}
ValidReport ==
    agent3.called /\ ~final_report.none /\ final_report.text # <<>>
        /\ ~IsErrorText(final_report.text)
C13_EveryRunEndsAtSummary ==
    /\ pc = "done" \/ ENABLED Next
    /\ Invoked("load_and_prepare_data") => (IsNone(data_df) \/ IsFrame(data_df))
    /\ agent2.called => IsFrame(df_with_indicators)
    /\ agent3.called => ~final_report.none
    /\ pc # "done" => summary.none
    /\ pc = "done"
         => /\ ~summary.none
            /\ summary.text = IF ValidReport THEN final_report.text ELSE MsgNoValidReport

====
